---- MODULE Spec2Model ----
(***************************************************************************)
(* Enrichment runs of the Family-Friendly-Facility data scripts:           *)
(*   geocode_nursing_rooms.py        (address -> coordinates, ArcGIS)      *)
(*   reverse_geocode_playgrounds.py  (coordinates -> address, Google)      *)
(* A run loads the JSON snapshot, selects the records that miss the target *)
(* field, submits one job per selected record to a ThreadPoolExecutor,     *)
(* collects the futures with as_completed, saves the file every            *)
(* save_interval collected jobs, and saves once more at the end or on      *)
(* KeyboardInterrupt.                                                      *)
(*                                                                         *)
(* Conventions. An optional value (Python None or a value) is a sequence   *)
(* of length 0 or 1.  Coordinates are integers in tenths of a degree       *)
(* (25.0 is 250, 121.5 is 1215).  An address that is absent, null, "" or   *)
(* blank is the string "": the code only tests "not address" and           *)
(* "not address.strip()".  Python list index i is index i+1 here.          *)
(***************************************************************************)
EXTENDS Integers, Sequences, FiniteSets, TLC

\* ---------------------------------------------------------------- bounds
MaxRecords == 2
MaxWorkers == 2
MaxSaveInterval == 2
MaxRuns == 2
MaxCandidates == 2

\* ---------------------------------------------------------------- values
None == << >>
Some(v) == << v >>

Deg(d, t) == d * 10 + t

Modes == {"geocode", "reverse"}
Clients == {"service", "stub_ok", "stub_none"}

\* address strings: "" (absent, null, empty, or in the nursing-room file
\* whitespace only: build_address joins the row's parts) and a street address
Addresses == {"", "addr"}

\* a record as loaded from data["data"]
Item(a, lat, lng) == [address |-> a, latitude |-> lat, longitude |-> lng]

\* records the loaders and earlier runs leave in the nursing-room file:
\* coordinates both null (convert_csv_to_json) or both filled
NursingRoomItems ==
    {Item(a, None, None) : a \in Addresses} \cup {Item(a, Some(Deg(25, 0)), Some(Deg(121, 5))) : a \in Addresses}

\* records of the playground file: the scraper adds latitude and longitude
\* independently and no address; an earlier run may have filled the address
PlaygroundItems ==
    {Item(a, lat, lng) : a \in Addresses,
                         lat \in {None, Some(Deg(25, 0))},
                         lng \in {None, Some(Deg(121, 5))}}

SeqsUpTo(S, n) == UNION {[1..k -> S] : k \in 1..n}

\* ------------------------------------------------------- external services
\* ArcGIS findAddressCandidates: a failed request, or a candidate list
Candidates ==
    { [score |-> 100, x |-> Some(Deg(121, 5)), y |-> Some(Deg(25, 0))],
      [score |-> 100, x |-> Some(0),           y |-> Some(0)],
      [score |-> 80,  x |-> Some(Deg(121, 5)), y |-> Some(Deg(25, 0))],
      [score |-> 100, x |-> None,              y |-> Some(Deg(25, 0))] }

GeocodeResponses ==
    { [ok |-> FALSE, candidates |-> << >>] } \cup
    { [ok |-> TRUE, candidates |-> c] : c \in {<< >>} \cup SeqsUpTo(Candidates, MaxCandidates) }

StubGeocodeOk == [ok |-> TRUE, candidates |-> << [score |-> 100, x |-> Some(Deg(121, 5)), y |-> Some(Deg(25, 0))] >>]
StubGeocodeNone == [ok |-> TRUE, candidates |-> << >>]

\* Google geocode/json: a failed request, or a status and a result list
ReverseResponses ==
    { [ok |-> FALSE, status |-> "", results |-> << >>] } \cup
    { [ok |-> TRUE, status |-> s, results |-> r] :
        s \in {"OK", "ZERO_RESULTS"}, r \in {<< >>, << "" >>, << "addr" >>, << "addr", "" >>} }

StubReverseOk == [ok |-> TRUE, status |-> "OK", results |-> << "addr" >>]
StubReverseNone == [ok |-> TRUE, status |-> "ZERO_RESULTS", results |-> << >>]
\* the answer of the Google service to a request with an empty key
RequestDenied == [ok |-> TRUE, status |-> "REQUEST_DENIED", results |-> << >>]

ResponsesOf(m, c) ==
    IF m = "geocode"
    THEN CASE c = "stub_ok" -> {StubGeocodeOk}
           [] c = "stub_none" -> {StubGeocodeNone}
           [] OTHER -> GeocodeResponses
    ELSE CASE c = "stub_ok" -> {StubReverseOk}
           [] c = "stub_none" -> {StubReverseNone}
           [] c = "denied" -> {RequestDenied, [ok |-> FALSE, status |-> "", results |-> << >>]}
           [] OTHER -> ReverseResponses

\* ------------------------------------------------------------ pure helpers
\* max(data["candidates"], key=score): the first candidate of maximal score
RECURSIVE BestFrom(_, _, _)
BestFrom(cands, k, best) ==
    IF k > Len(cands) THEN best
    ELSE BestFrom(cands, k + 1, IF cands[k].score > cands[best].score THEN k ELSE best)

\* faulty variant: among candidates of equal score the last one wins
RECURSIVE BestFromLast(_, _, _)
BestFromLast(cands, k, best) ==
    IF k > Len(cands) THEN best
    ELSE BestFromLast(cands, k + 1, IF cands[k].score >= cands[best].score THEN k ELSE best)
best_candidate_last(cands) == cands[BestFromLast(cands, 2, 1)]

best_candidate(cands) == cands[BestFrom(cands, 2, 1)]

\* geocode_address without the request: the blank-address guard
address_is_blank(address) == address = ""

\* faulty variant: the location of the best candidate is not tested for null
geocode_address_unchecked(address, resp) ==
    IF address_is_blank(address) THEN None
    ELSE IF ~resp.ok THEN None
    ELSE IF resp.candidates = << >> THEN None
    ELSE LET b == best_candidate(resp.candidates)
         IN << IF b.x # None THEN b.x[1] ELSE 0, IF b.y # None THEN b.y[1] ELSE 0 >>

\* faulty variant: x and y of the location are taken the wrong way round
geocode_address_swapped(address, resp) ==
    IF address_is_blank(address) THEN None
    ELSE IF ~resp.ok THEN None
    ELSE IF resp.candidates = << >> THEN None
    ELSE LET b == best_candidate(resp.candidates)
         IN IF b.x # None /\ b.y # None THEN << b.y[1], b.x[1] >> ELSE None

\* geocode_address after the response arrived: (longitude, latitude) or None
geocode_address(address, resp) ==
    IF address_is_blank(address) THEN None
    ELSE IF ~resp.ok THEN None
    ELSE IF resp.candidates = << >> THEN None
    ELSE LET b == best_candidate(resp.candidates)
         IN IF b.x # None /\ b.y # None THEN << b.x[1], b.y[1] >> ELSE None

\* reverse_geocode after the response arrived: the address or None
reverse_geocode(latitude, longitude, resp) ==
    IF latitude = None \/ longitude = None THEN None
    ELSE IF ~resp.ok THEN None
    ELSE IF resp.status # "OK" THEN None
    ELSE IF resp.results = << >> THEN None
    ELSE IF resp.results[1] # "" THEN Some(resp.results[1]) ELSE None

\* the selection predicates of the two job lists
\* faulty variant: the filter is dropped and every record is selected
missing_coordinates_all(item) == TRUE
missing_coordinates(item) == item.latitude = None \/ item.longitude = None
\* faulty variant: the selection forgets the coordinate test
missing_address_any(item) == item.address = ""
\* faulty variant: one coordinate is enough for the selection
missing_address_either(item) == item.address = "" /\ (item.latitude # None \/ item.longitude # None)
missing_address(item) == item.address = "" /\ item.latitude # None /\ item.longitude # None

needs_job(m, item) == IF m = "geocode" THEN missing_coordinates(item) ELSE missing_address(item)

RECURSIVE SelectFrom(_, _, _)
SelectFrom(m, its, k) ==
    IF k > Len(its) THEN << >>
    ELSE (IF needs_job(m, its[k]) THEN << k >> ELSE << >>) \o SelectFrom(m, its, k + 1)

\* faulty variant: the selected records are enumerated twice
items_to_process_twice(m, its) == SelectFrom(m, its, 1) \o SelectFrom(m, its, 1)
items_to_process(m, its) == SelectFrom(m, its, 1)

\* process_item's early returns before any request
already_filled(m, item) ==
    IF m = "geocode" THEN item.latitude # None /\ item.longitude # None
    ELSE item.address # ""

\* faulty variant: the save waits one job too long
save_due_late(processed, last_save, interval) == processed - last_save > interval
\* the periodic save condition
save_due(processed, last_save, interval) == processed - last_save >= interval

Range(s) == {s[k] : k \in 1..Len(s)}

\* elapsed_time values time.time() - start_time can take: zero (two readings
\* within one clock tick) or positive
ElapsedTimes == {0, 1}
\* the readings of time.time() before the jobs are submitted and after the
\* loop: they fall within one clock tick only when no job waited for an answer
\* of the remote service (no request, a request that failed at once, or a
\* stub that answers in place of the service)
elapsed_times(c, answered) == IF c = "service" /\ answered THEN ElapsedTimes \ {0} ELSE ElapsedTimes

\* the report line "processed_count/elapsed_time" of the geocode script is
\* unguarded; the reverse-geocode script guards it with "if elapsed_time > 0"
report_raises(m, elapsed) == m = "geocode" /\ elapsed = 0

\* the tuple element process_item returns as updated_item: the dict object it
\* was given, which is the object stored in items[index]
updated_item(its, j) == its[j]

\* faulty variant: every collected job counts as a success
is_success_always(res) == TRUE
\* "if coordinates:" / "if address:" on the value process_item returned
is_success(res) == res # None

Workers == 1..MaxWorkers
Terminal == {"Completed", "Interrupted", "Crashed", "Aborted"}

\* ---------------------------------------------------------------- credential
\* the .env file next to the script: absent, or its lines after strip();
\* a line starts with key=, API_KEY= or GOOGLE_API_KEY= (value: what follows,
\* stripped) or is some other line
KeyLines == { [prefix |-> p, value |-> v] : p \in {"key=", "API_KEY=", "GOOGLE_API_KEY="}, v \in {"", "KEY"} }
OtherLine == [prefix |-> "other", value |-> ""]
DotenvFiles ==
    {None, Some(<< >>), Some(<< OtherLine >>)}
    \cup {Some(<< l >>) : l \in KeyLines}
    \cup {Some(<< OtherLine, l >>) : l \in KeyLines}
    \cup {Some(<< l, m >>) : l, m \in KeyLines}
\* os.environ: GOOGLE_API_KEY and API_KEY, unset or set
Environs == { [GOOGLE_API_KEY |-> g, API_KEY |-> k] : g, k \in {None, Some(""), Some("KEY")} }

\* "for line in f: ... return": index of the first key line, 0 when none
RECURSIVE first_key_line(_, _)
first_key_line(lines, i) ==
    IF i > Len(lines) THEN 0
    ELSE IF lines[i].prefix # "other" THEN i ELSE first_key_line(lines, i + 1)

\* os.getenv("GOOGLE_API_KEY") or os.getenv("API_KEY")
getenv_either(environ) ==
    IF environ.GOOGLE_API_KEY # None /\ environ.GOOGLE_API_KEY[1] # ""
    THEN environ.GOOGLE_API_KEY ELSE environ.API_KEY

\* load_api_key: Some(key), or None for the ValueError
load_api_key(dotenv, environ) ==
    IF dotenv # None /\ first_key_line(dotenv[1], 1) # 0
    THEN Some(dotenv[1][first_key_line(dotenv[1], 1)].value)
    ELSE LET k == getenv_either(environ)
         IN IF k # None /\ k[1] # "" THEN k ELSE None

\* what load_api_key yields over every .env file and environment: the
\* .env file and the environment stay the same from one invocation to the next
LoadedKeys == {load_api_key(dotenv, environ) : dotenv \in DotenvFiles, environ \in Environs}

\* ------------------------------------------------------------------ state
VARIABLES
    mode,             \* which script runs
    client,           \* behaviour of the external service
    save_interval,    \* parameter save_interval
    disk,             \* data["data"] in the durable JSON file
    items,            \* items: the in-memory list of record dicts
    jobs,             \* items_to_process (record indices)
    queue,            \* executor work queue: submitted jobs no thread took yet
    wpc,              \* per pool thread: position inside process_item
    wjob,             \* per pool thread: index of the record it works on
    wres,             \* per pool thread: coordinates / address local
    future,           \* per record index: state of its future
    result,           \* per record index: third element of the future's result
    collected,        \* indices whose future as_completed already yielded
    processed_count,
    success_count,
    last_save_count,
    runState,         \* Idle, Running, Completed, Interrupted, Crashed
    interrupted,      \* KeyboardInterrupt raised, executor __exit__ joining
    run,              \* number of the current invocation of the script
    lastWrite,        \* kind of the last write of the file in this run
    loaded,           \* data["data"] as read at the start of this run
    outcome,          \* per record index: none, no_request, failed, answered
    atInterrupt,      \* jobs unstarted / unfinished when the interrupt came
    prevState,        \* how the previous invocation ended
    prevJobs,         \* the job list of the previous invocation
    api_key,          \* what load_api_key yields in this installation
    unpaced,          \* pool threads that sent a request and no pause came since
    fn,               \* loader / parser function applied last ("none": no call)
    arg,              \* its argument
    ret               \* the value it returned

vars == << mode, client, save_interval, disk, items, jobs, queue, wpc, wjob, wres,
           future, result, collected, processed_count, success_count,
           last_save_count, runState, interrupted, run, lastWrite, loaded,
           outcome, atInterrupt, prevState, prevJobs, api_key, unpaced, fn, arg, ret >>

config == << mode, client, save_interval, api_key >>
workerVars == << wpc, wjob, wres >>
counters == << processed_count, success_count, last_save_count >>
history == << prevState, prevJobs >>
loaderVars == << fn, arg, ret >>

NoInterrupt == [unstarted |-> {}, unfinished |-> {}]

ItemsOf(m) == IF m = "geocode" THEN NursingRoomItems ELSE PlaygroundItems

Init ==
    /\ mode \in Modes
    /\ client \in Clients
    /\ save_interval \in 1..MaxSaveInterval
    /\ api_key \in (IF mode = "reverse" THEN LoadedKeys ELSE {None})
    /\ disk \in SeqsUpTo(ItemsOf(mode), MaxRecords)
    /\ items = disk
    /\ jobs = << >>
    /\ queue = << >>
    /\ wpc = [w \in Workers |-> "idle"]
    /\ wjob = [w \in Workers |-> 0]
    /\ wres = [w \in Workers |-> None]
    /\ future = [j \in 1..Len(disk) |-> "none"]
    /\ result = [j \in 1..Len(disk) |-> None]
    /\ collected = {}
    /\ processed_count = 0
    /\ success_count = 0
    /\ last_save_count = 0
    /\ runState = "Idle"
    /\ interrupted = FALSE
    /\ run = 1
    /\ lastWrite = "none"
    /\ loaded = disk
    /\ outcome = [j \in 1..Len(disk) |-> "none"]
    /\ atInterrupt = NoInterrupt
    /\ prevState = "none"
    /\ prevJobs = << >>
    /\ unpaced = {}
    /\ fn = "none"
    /\ arg = << >>
    /\ ret = << >>

\* --------------------------------------------------------------- coordinator
\* faulty variant: the early return on an empty job list is missing
EnterWithoutEarlyReturn ==
    /\ items' = disk
    /\ loaded' = disk
    /\ jobs' = items_to_process(mode, disk)
    /\ runState' = "Running"
    /\ queue' = jobs'
    /\ future' = [j \in 1..Len(disk) |-> IF j \in Range(jobs') THEN "pending" ELSE "none"]

\* geocode_nursing_rooms / reverse_geocode_playgrounds up to the submission of
\* the jobs: json.load, the job list, the early return on an empty list, and
\* the submission of every job to the executor
Enter ==
    /\ items' = disk
    /\ loaded' = disk
    /\ jobs' = items_to_process(mode, disk)
    /\ IF jobs' = << >>
       THEN runState' = "Completed" /\ queue' = << >> /\ future' = future
       ELSE /\ runState' = "Running"
            /\ queue' = jobs'
            /\ future' = [j \in 1..Len(disk) |-> IF j \in Range(jobs') THEN "pending" ELSE "none"]

\* "except ValueError: print; exit(1)"
Abort ==
    /\ runState' = "Aborted"
    /\ UNCHANGED << items, loaded, jobs, queue, future >>

\* __main__: the reverse script loads the key and exits when load_api_key
\* raises; then the run function is called
Start ==
    /\ runState = "Idle"
    /\ IF mode = "reverse" /\ api_key = None THEN Abort ELSE Enter
    /\ UNCHANGED << config, loaderVars, unpaced, disk, workerVars, result, collected, counters,
                    interrupted, run, lastWrite, outcome, atInterrupt, history >>

\* "time.sleep(0.1)" closes each iteration of the reverse script's collecting
\* loop; the geocode script has no pause
pause_after_collect(m) == m = "reverse"

\* one iteration of "for future in as_completed(...)": count, store the
\* returned item, count a success, save when due
Collect(j) ==
    /\ runState = "Running"
    /\ ~interrupted
    /\ j \in Range(jobs)
    /\ future[j] = "finished"
    /\ j \notin collected
    /\ collected' = collected \cup {j}
    /\ processed_count' = processed_count + 1
    /\ items' = [items EXCEPT ![j] = updated_item(items, j)]
    /\ success_count' = IF is_success(result[j]) THEN success_count + 1 ELSE success_count
    /\ IF save_due(processed_count', last_save_count, save_interval)
       THEN disk' = items' /\ last_save_count' = processed_count' /\ lastWrite' = "periodic"
       ELSE UNCHANGED << disk, last_save_count, lastWrite >>
    /\ unpaced' = IF pause_after_collect(mode) THEN {} ELSE unpaced
    /\ UNCHANGED << config, loaderVars, jobs, queue, workerVars, future, result, runState, interrupted,
                    run, loaded, outcome, atInterrupt, history >>

\* KeyboardInterrupt in the main thread inside the with block: the executor's
\* __exit__ runs shutdown(wait=True) before the except clause is entered
Interrupt ==
    /\ runState = "Running"
    /\ ~interrupted
    /\ interrupted' = TRUE
    /\ atInterrupt' = [unstarted |-> Range(queue),
                       unfinished |-> {j \in Range(jobs) : future[j] # "finished"}]
    /\ UNCHANGED << config, loaderVars, unpaced, disk, items, jobs, queue, workerVars, future, result, collected,
                    counters, runState, run, lastWrite, loaded, outcome, history >>

\* shutdown(wait=True) returned (queue drained, threads joined and gone); the
\* except clause writes the file and returns
InterruptSave ==
    /\ runState = "Running"
    /\ interrupted
    /\ queue = << >>
    /\ \A w \in Workers : wpc[w] = "idle"
    /\ disk' = items
    /\ lastWrite' = "interrupt"
    /\ runState' = "Interrupted"
    /\ unpaced' = {}
    /\ UNCHANGED << config, loaderVars, items, jobs, queue, workerVars, future, result, collected, counters,
                    interrupted, run, loaded, outcome, atInterrupt, history >>

\* the loop is exhausted and the executor shut down (its threads are gone):
\* report (elapsed time, throughput) and final save
Finish ==
    /\ runState = "Running"
    /\ ~interrupted
    /\ collected = Range(jobs)
    /\ \E elapsed \in elapsed_times(client, \E j \in Range(jobs) : outcome[j] = "answered") :
         IF report_raises(mode, elapsed)
         THEN runState' = "Crashed" /\ UNCHANGED << disk, lastWrite >>
         ELSE runState' = "Completed" /\ disk' = items /\ lastWrite' = "final"
    /\ unpaced' = {}
    /\ UNCHANGED << config, loaderVars, items, jobs, queue, workerVars, future, result, collected, counters,
                    interrupted, run, loaded, outcome, atInterrupt, history >>

\* the operator runs the script again on the file the previous run left
Relaunch ==
    /\ runState \in Terminal
    /\ run < MaxRuns
    /\ run' = run + 1
    /\ prevState' = runState
    /\ prevJobs' = jobs
    /\ runState' = "Idle"
    /\ items' = disk
    /\ loaded' = disk
    /\ jobs' = << >>
    /\ queue' = << >>
    /\ wpc' = [w \in Workers |-> "idle"]
    /\ wjob' = [w \in Workers |-> 0]
    /\ wres' = [w \in Workers |-> None]
    /\ future' = [j \in 1..Len(disk) |-> "none"]
    /\ result' = [j \in 1..Len(disk) |-> None]
    /\ collected' = {}
    /\ processed_count' = 0
    /\ success_count' = 0
    /\ last_save_count' = 0
    /\ interrupted' = FALSE
    /\ lastWrite' = "none"
    /\ outcome' = [j \in 1..Len(disk) |-> "none"]
    /\ atInterrupt' = NoInterrupt
    /\ unpaced' = {}
    /\ UNCHANGED << config, loaderVars, disk >>

\* ------------------------------------------------------------- pool threads
\* the future of job j is set to the value process_item returned
Done(w, j, res, what) ==
    /\ future' = [future EXCEPT ![j] = "finished"]
    /\ result' = [result EXCEPT ![j] = res]
    /\ outcome' = [outcome EXCEPT ![j] = what]
    /\ wpc' = [wpc EXCEPT ![w] = "idle"]
    /\ wjob' = [wjob EXCEPT ![w] = 0]
    /\ wres' = [wres EXCEPT ![w] = None]

\* process_item's returns that make no request: the record is already filled,
\* the address to geocode is blank, or a coordinate to reverse-geocode is null
no_request(m, item) ==
    \/ already_filled(m, item)
    \/ IF m = "geocode" THEN address_is_blank(item.address)
       ELSE item.latitude = None \/ item.longitude = None

\* an idle thread takes the oldest queued job and runs process_item up to
\* the request (the pool's threads are interchangeable: the idle thread of
\* lowest number stands for whichever idle thread gets the job)
WorkerTake(w) ==
    /\ runState = "Running"
    /\ wpc[w] = "idle"
    /\ \A v \in Workers : v < w => wpc[v] # "idle"
    /\ queue # << >>
    /\ LET j == Head(queue)
       IN /\ queue' = Tail(queue)
          /\ IF no_request(mode, items[j])
             THEN Done(w, j, None, "no_request")
             ELSE /\ wpc' = [wpc EXCEPT ![w] = "request"]
                  /\ wjob' = [wjob EXCEPT ![w] = j]
                  /\ future' = [future EXCEPT ![j] = "running"]
                  /\ UNCHANGED << wres, result, outcome >>
          /\ unpaced' = IF no_request(mode, items[j]) THEN unpaced ELSE unpaced \cup {w}
    /\ UNCHANGED << config, loaderVars, disk, items, jobs, collected, counters, runState, interrupted,
                    run, lastWrite, loaded, atInterrupt, history >>

\* the value the client function returns for the response
client_result(m, item, resp) ==
    IF m = "geocode" THEN geocode_address(item.address, resp)
    ELSE reverse_geocode(item.latitude, item.longitude, resp)

\* the external call failed: request error, timeout or non-success status,
\* an empty answer, or an answer whose chosen entry is malformed (the best
\* candidate has no location, the first result no formatted address)
call_failed(m, resp) ==
    IF m = "geocode"
    THEN \/ ~resp.ok
         \/ resp.candidates = << >>
         \/ \E k \in 1..Len(resp.candidates) :
              /\ \A i \in 1..Len(resp.candidates) :
                    /\ resp.candidates[i].score <= resp.candidates[k].score
                    /\ i < k => resp.candidates[i].score < resp.candidates[k].score
              /\ (resp.candidates[k].x = None \/ resp.candidates[k].y = None)
    ELSE \/ ~resp.ok
         \/ resp.status # "OK"
         \/ resp.results = << >>
         \/ resp.results[1] = ""

\* what the client functions read of a record: the address, and whether each
\* coordinate is null
RequestKeys == Addresses \X BOOLEAN \X BOOLEAN
KeyOf(item) == << item.address, item.latitude # None, item.longitude # None >>
KeyItem(k) ==
    Item(k[1], IF k[2] THEN Some(Deg(25, 0)) ELSE None, IF k[3] THEN Some(Deg(121, 5)) ELSE None)

\* every (call failed?, value the client function returns) the service can
\* produce, tabulated once per script, service behaviour and record key
ClientOutcomes ==
    {<< m, c, k,
        {<< call_failed(m, resp), client_result(m, KeyItem(k), resp) >> : resp \in ResponsesOf(m, c)} >> :
        m \in Modes, c \in Clients \cup {"denied"}, k \in RequestKeys}

client_results(m, c, item) ==
    (CHOOSE t \in ClientOutcomes : t[1] = m /\ t[2] = c /\ t[3] = KeyOf(item))[4]

\* the service that answers: the real service denies a request that carries
\* an empty key
answering(m, c, key) ==
    IF m = "reverse" /\ c = "service" /\ key = Some("") THEN "denied" ELSE c

\* the request returns, fails or times out: process_item returns
\* (index, item, None) or goes on to assign the record
WorkerResponse(w) ==
    /\ runState = "Running"
    /\ wpc[w] = "request"
    /\ \E r \in client_results(mode, answering(mode, client, api_key), items[wjob[w]]) :
         LET j == wjob[w]
             what == IF r[1] THEN "failed" ELSE "answered"
             res == r[2]
         IN IF res = None
            THEN Done(w, j, None, what)
            ELSE /\ wres' = [wres EXCEPT ![w] = res]
                 /\ wpc' = [wpc EXCEPT ![w] = IF mode = "geocode" THEN "write_lon" ELSE "write_addr"]
                 /\ outcome' = [outcome EXCEPT ![j] = what]
                 /\ UNCHANGED << wjob, future, result >>
    /\ UNCHANGED << config, loaderVars, unpaced, disk, items, jobs, queue, collected, counters, runState, interrupted,
                    run, lastWrite, loaded, atInterrupt, history >>

\* item["longitude"] = longitude
WorkerWriteLon(w) ==
    /\ runState = "Running"
    /\ wpc[w] = "write_lon"
    /\ items' = [items EXCEPT ![wjob[w]].longitude = Some(wres[w][1])]
    /\ wpc' = [wpc EXCEPT ![w] = "write_lat"]
    /\ UNCHANGED << config, loaderVars, unpaced, disk, jobs, queue, wjob, wres, future, result, collected, counters,
                    runState, interrupted, run, lastWrite, loaded, outcome, atInterrupt, history >>

\* item["latitude"] = latitude, then return (index, item, coordinates)
WorkerWriteLat(w) ==
    /\ runState = "Running"
    /\ wpc[w] = "write_lat"
    /\ items' = [items EXCEPT ![wjob[w]].latitude = Some(wres[w][2])]
    /\ Done(w, wjob[w], wres[w], outcome[wjob[w]])
    /\ UNCHANGED << config, loaderVars, unpaced, disk, jobs, queue, collected, counters, runState, interrupted,
                    run, lastWrite, loaded, atInterrupt, history >>

\* item["address"] = address, then return (index, item, address)
WorkerWriteAddr(w) ==
    /\ runState = "Running"
    /\ wpc[w] = "write_addr"
    /\ items' = [items EXCEPT ![wjob[w]].address = wres[w][1]]
    /\ Done(w, wjob[w], wres[w], outcome[wjob[w]])
    /\ UNCHANGED << config, loaderVars, unpaced, disk, jobs, queue, collected, counters, runState, interrupted,
                    run, lastWrite, loaded, atInterrupt, history >>

Next ==
    \/ Start
    \/ \E j \in 1..MaxRecords : Collect(j)
    \/ Interrupt
    \/ InterruptSave
    \/ Finish
    \/ Relaunch
    \/ \E w \in Workers : WorkerTake(w)
    \/ \E w \in Workers : WorkerResponse(w)
    \/ \E w \in Workers : WorkerWriteLon(w)
    \/ \E w \in Workers : WorkerWriteLat(w)
    \/ \E w \in Workers : WorkerWriteAddr(w)

Spec == Init /\ [][Next]_vars

\* a data file that holds a partial coordinate pair: the nursing-room file
\* after a run was killed past a periodic save that fell between the two
\* assignments of process_item (or after an edit by hand); the playground
\* file as the scraper leaves it
PartialPairFiles(m) ==
    IF m = "geocode"
    THEN { << Item("addr", Some(Deg(25, 0)), None) >>,
           << Item("addr", None, Some(Deg(121, 5))) >>,
           << Item("addr", Some(Deg(25, 0)), None), Item("addr", None, None) >> }
    ELSE { << Item("", Some(Deg(25, 0)), None) >>,
           << Item("", Some(Deg(25, 0)), None), Item("", Some(Deg(25, 0)), Some(Deg(121, 5))) >> }

\* the script is started on such a file
PartialPairInit ==
    /\ mode \in Modes
    /\ client \in Clients
    /\ save_interval \in 1..MaxSaveInterval
    /\ api_key \in (IF mode = "reverse" THEN LoadedKeys ELSE {None})
    /\ disk \in PartialPairFiles(mode)
    /\ items = disk
    /\ jobs = << >>
    /\ queue = << >>
    /\ wpc = [w \in Workers |-> "idle"]
    /\ wjob = [w \in Workers |-> 0]
    /\ wres = [w \in Workers |-> None]
    /\ future = [j \in 1..Len(disk) |-> "none"]
    /\ result = [j \in 1..Len(disk) |-> None]
    /\ collected = {}
    /\ processed_count = 0
    /\ success_count = 0
    /\ last_save_count = 0
    /\ runState = "Idle"
    /\ interrupted = FALSE
    /\ run = 1
    /\ lastWrite = "none"
    /\ loaded = disk
    /\ outcome = [j \in 1..Len(disk) |-> "none"]
    /\ atInterrupt = NoInterrupt
    /\ prevState = "none"
    /\ prevJobs = << >>
    /\ unpaced = {}
    /\ fn = "none"
    /\ arg = << >>
    /\ ret = << >>

PartialPairSpec == PartialPairInit /\ [][Next]_vars

\* ------------------------------------------------- interruption inside a save
\* KeyboardInterrupt is raised in the main thread at whatever instruction it
\* executes, also inside "with open(input_file, 'w') ... json.dump(...)":
\* open() has emptied the file and json.dump has written the records before
\* some point only.
truncated(its) == {SubSeq(its, 1, k) : k \in 0..(Len(its) - 1)}

\* the interrupt arrives inside the periodic save of an iteration of the
\* collecting loop: the iteration has counted the job, the file is cut short,
\* and the except clause is entered after the executor's shutdown
TornPeriodicSave(j) ==
    /\ runState = "Running"
    /\ ~interrupted
    /\ j \in Range(jobs)
    /\ future[j] = "finished"
    /\ j \notin collected
    /\ save_due(processed_count + 1, last_save_count, save_interval)
    /\ collected' = collected \cup {j}
    /\ processed_count' = processed_count + 1
    /\ items' = [items EXCEPT ![j] = updated_item(items, j)]
    /\ success_count' = IF is_success(result[j]) THEN success_count + 1 ELSE success_count
    /\ disk' \in truncated(items')
    /\ lastWrite' = "torn"
    /\ interrupted' = TRUE
    /\ atInterrupt' = [unstarted |-> Range(queue),
                       unfinished |-> {i \in Range(jobs) : future[i] # "finished"}]
    /\ UNCHANGED << config, loaderVars, unpaced, last_save_count, jobs, queue, workerVars, future,
                    result, runState, run, loaded, outcome, history >>

\* the interrupt arrives inside the final save, which no try block encloses:
\* the script ends with the file cut short
TornFinalSave ==
    /\ runState = "Running"
    /\ ~interrupted
    /\ collected = Range(jobs)
    /\ \E elapsed \in elapsed_times(client, \E j \in Range(jobs) : outcome[j] = "answered") :
         ~report_raises(mode, elapsed)
    /\ disk' \in truncated(items)
    /\ lastWrite' = "torn"
    /\ runState' = "Interrupted"
    /\ interrupted' = TRUE
    /\ unpaced' = {}
    /\ UNCHANGED << config, loaderVars, items, jobs, queue, workerVars, future, result, collected,
                    counters, run, loaded, outcome, atInterrupt, history >>

\* a second interrupt arrives inside the save of the except clause
TornInterruptSave ==
    /\ runState = "Running"
    /\ interrupted
    /\ queue = << >>
    /\ \A w \in Workers : wpc[w] = "idle"
    /\ disk' \in truncated(items)
    /\ lastWrite' = "torn"
    /\ runState' = "Interrupted"
    /\ unpaced' = {}
    /\ UNCHANGED << config, loaderVars, items, jobs, queue, workerVars, future, result, collected,
                    counters, interrupted, run, loaded, outcome, atInterrupt, history >>

\* the script is run again on a file json.load accepts (on a file cut short
\* json.load raises and nothing further happens)
RelaunchOnWholeFile == lastWrite # "torn" /\ Relaunch

PreemptiveNext ==
    \/ Start
    \/ \E j \in 1..MaxRecords : Collect(j)
    \/ Interrupt
    \/ InterruptSave
    \/ Finish
    \/ RelaunchOnWholeFile
    \/ \E w \in Workers : WorkerTake(w)
    \/ \E w \in Workers : WorkerResponse(w)
    \/ \E w \in Workers : WorkerWriteLon(w)
    \/ \E w \in Workers : WorkerWriteLat(w)
    \/ \E w \in Workers : WorkerWriteAddr(w)
    \/ \E j \in 1..MaxRecords : TornPeriodicSave(j)
    \/ TornFinalSave
    \/ TornInterruptSave

PreemptiveSpec == Init /\ [][PreemptiveNext]_vars

\* ============================================================ address parser
\* A Python str is a sequence of characters; a character is written by an
\* ASCII name.  Optional[str] is None or Some(str), so that None and the
\* empty string stay different values.
\*   "TAI" 臺   "tai" 台   "qu" 區   "shi" 市   "zhen" 鎮   "xiang" 鄉
\*   "xian" 縣  "ping" 屏  "ping2" 平  "yi" 義  "yi2" 宜  "hua" 化  "hua2" 花
\*   " " a whitespace character; every other name is the character's reading
MaxRemainder == 2
MaxRows == 2

\* CITY_PATTERNS, in list order
CITY_PATTERNS ==
    << << "TAI", "bei", "shi" >>,   << "tai", "bei", "shi" >>,   << "xin", "bei", "shi" >>,
       << "tao", "yuan", "shi" >>,  << "TAI", "zhong", "shi" >>, << "tai", "zhong", "shi" >>,
       << "TAI", "nan", "shi" >>,   << "tai", "nan", "shi" >>,   << "gao", "xiong", "shi" >>,
       << "ji", "long", "shi" >>,   << "xin", "zhu", "shi" >>,   << "jia", "yi", "shi" >>,
       << "xin", "zhu", "xian" >>,  << "miao", "li", "xian" >>,  << "zhang", "hua", "xian" >>,
       << "nan", "tou", "xian" >>,  << "yun", "lin", "xian" >>,  << "jia", "yi", "xian" >>,
       << "ping", "dong", "xian" >>, << "yi2", "lan", "xian" >>, << "hua2", "lian", "xian" >>,
       << "TAI", "dong", "xian" >>, << "tai", "dong", "xian" >>, << "peng", "hu", "xian" >>,
       << "jin", "men", "xian" >>,  << "lian", "jiang", "xian" >> >>

DISTRICT_SUFFIXES == {"qu", "shi", "zhen", "xiang", "xian"}

Whitespace == {" "}

\* str.strip()
RECURSIVE lstrip(_)
lstrip(s) == IF s # << >> /\ Head(s) \in Whitespace THEN lstrip(Tail(s)) ELSE s
RECURSIVE rstrip(_)
rstrip(s) == IF s # << >> /\ s[Len(s)] \in Whitespace THEN rstrip(SubSeq(s, 1, Len(s) - 1)) ELSE s
strip(s) == rstrip(lstrip(s))

\* str.startswith(p)
startswith(s, p) == Len(p) <= Len(s) /\ SubSeq(s, 1, Len(p)) = p

\* "if x" / "not x" on an Optional[str]
truthy(x) == x # None /\ x[1] # << >>

\* the for loop over CITY_PATTERNS with break: index of the first pattern
\* the text starts with, 0 when there is none
RECURSIVE first_city(_, _)
first_city(s, k) ==
    IF k > Len(CITY_PATTERNS) THEN 0
    ELSE IF startswith(s, CITY_PATTERNS[k]) THEN k ELSE first_city(s, k + 1)

\* re.match(r'^([^區市鎮鄉縣]{1,4}[區市鎮鄉縣])', s): length of group 1, 0 when
\* there is no match (one to four characters that are no suffix character,
\* followed by a suffix character)
district_match(s) ==
    LET ks == {k \in 1..4 : /\ k + 1 <= Len(s)
                            /\ s[k + 1] \in DISTRICT_SUFFIXES
                            /\ \A i \in 1..k : s[i] \notin DISTRICT_SUFFIXES}
    IN IF ks = {} THEN 0 ELSE (CHOOSE k \in ks : TRUE) + 1

\* parse_city_and_district: << city, district, remaining_address >>
parse_city_and_district(address, fallback_city, fallback_district) ==
    IF ~truthy(address) \/ strip(address[1]) = << >>
    THEN << fallback_city, fallback_district, << >> >>
    ELSE LET s0 == strip(address[1])
             ci == first_city(s0, 1)
             s1 == IF ci = 0 THEN s0 ELSE SubSeq(s0, Len(CITY_PATTERNS[ci]) + 1, Len(s0))
             city == IF ci # 0 THEN Some(CITY_PATTERNS[ci])
                     ELSE IF truthy(fallback_city) THEN fallback_city ELSE None
             m == IF truthy(city) /\ Len(s1) > 0 THEN district_match(s1) ELSE 0
             s2 == IF m = 0 THEN s1 ELSE SubSeq(s1, m + 1, Len(s1))
             district == IF m # 0 THEN Some(SubSeq(s1, 1, m))
                         ELSE IF truthy(fallback_district) THEN fallback_district ELSE None
         IN << city, district, strip(s2) >>

\* str.replace('台', '臺')
replace_tai(s) == [i \in 1..Len(s) |-> IF s[i] = "tai" THEN "TAI" ELSE s[i]]

normalize_city_name(city) == IF ~truthy(city) THEN None ELSE Some(replace_tai(city[1]))

normalize_district_name(district) == IF ~truthy(district) THEN None ELSE Some(strip(district[1]))

\* ------------------------------------------------ calls of the pure functions
runVars == << mode, client, save_interval, disk, items, jobs, queue, wpc, wjob, wres,
              future, result, collected, processed_count, success_count,
              last_save_count, runState, interrupted, run, lastWrite, loaded,
              outcome, atInterrupt, prevState, prevJobs, api_key, unpaced >>

\* no enrichment run is going on while the loaders and parsers are exercised
LoaderInit ==
    /\ mode = "geocode" /\ client = "service" /\ save_interval = 1
    /\ disk = << Item("", None, None) >> /\ items = disk /\ loaded = disk
    /\ jobs = << >> /\ queue = << >>
    /\ wpc = [w \in Workers |-> "idle"]
    /\ wjob = [w \in Workers |-> 0]
    /\ wres = [w \in Workers |-> None]
    /\ future = [j \in 1..1 |-> "none"]
    /\ result = [j \in 1..1 |-> None]
    /\ outcome = [j \in 1..1 |-> "none"]
    /\ collected = {}
    /\ processed_count = 0 /\ success_count = 0 /\ last_save_count = 0
    /\ runState = "Idle" /\ interrupted = FALSE /\ run = 1 /\ lastWrite = "none"
    /\ atInterrupt = NoInterrupt /\ prevState = "none" /\ prevJobs = << >>
    /\ api_key = None
    /\ unpaced = {}
    /\ fn = "none" /\ arg = << >> /\ ret = << >>

Call(f, a, r) == fn' = f /\ arg' = a /\ ret' = r /\ UNCHANGED runVars

\* input values: city names, some district names (北投區, 東區, 平鎮區, 新市區,
\* 臺東市, 台西鄉) and remainder texts
Cities == Range(CITY_PATTERNS)
KnownDistricts ==
    { << "bei", "tou", "qu" >>, << "dong", "qu" >>, << "ping2", "zhen", "qu" >>,
      << "xin", "shi", "qu" >>, << "TAI", "dong", "shi" >>, << "tai", "xi", "xiang" >> }
RemainderChars == {"lu", " "}
Remainders == {<< >>} \cup SeqsUpTo(RemainderChars, MaxRemainder)

ParseAddresses ==
    {None, Some(<< >>), Some(<< " " >>)}
    \cup {Some(c \o d \o r) : c \in Cities, d \in KnownDistricts, r \in Remainders}
    \cup {Some(d \o r) : d \in KnownDistricts, r \in Remainders}

OptionalNames ==
    {None, Some(<< >>), Some(<< " " >>)}
    \cup {Some(c) : c \in Cities}
    \cup {Some(d) : d \in KnownDistricts}
    \cup {Some(<< " " >> \o d \o << " " >>) : d \in KnownDistricts}

CallParse ==
    /\ fn = "none"
    /\ \E a \in ParseAddresses,
       fc \in {None, Some(<< "TAI", "bei", "shi" >>)},
       fd \in {None, Some(<< "bei", "tou", "qu" >>)} :
        Call("parse_city_and_district",
             [address |-> a, fallback_city |-> fc, fallback_district |-> fd],
             parse_city_and_district(a, fc, fd))

CallNormalizeCity ==
    /\ fn = "none"
    /\ \E c \in OptionalNames : Call("normalize_city_name", c, normalize_city_name(c))

CallNormalizeDistrict ==
    /\ fn = "none"
    /\ \E d \in OptionalNames : Call("normalize_district_name", d, normalize_district_name(d))

\* candidates with pairwise different locations, two of them without one
ScoredCandidates ==
    { [score |-> sc, x |-> l[1], y |-> l[2]] :
        sc \in {80, 100},
        l \in { << Some(Deg(121, 5)), Some(Deg(25, 0)) >>,
                << Some(Deg(120, 3)), Some(Deg(23, 1)) >>,
                << None, Some(Deg(24, 0)) >> } }

ScoredResponses ==
    { [ok |-> FALSE, candidates |-> << >>] } \cup
    { [ok |-> TRUE, candidates |-> c] : c \in {<< >>} \cup SeqsUpTo(ScoredCandidates, MaxCandidates) }

CallGeocodeAddress ==
    /\ fn = "none"
    /\ \E a \in Addresses, resp \in ScoredResponses :
        Call("geocode_address", [address |-> a, resp |-> resp], geocode_address(a, resp))

\* ------------------------------------------------------------------- loaders
\* float(text) of a source cell: a number (tenths of a degree), NaN, or a
\* ValueError / TypeError
Num(n) == [kind |-> "num", v |-> n]
NaN == [kind |-> "nan", v |-> 0]
Unparseable == [kind |-> "bad", v |-> 0]

\* ------------------------------------------------------ coordinate conversion
\* Python floats of twd97_to_wgs84 are fixed-point numbers here: a ratio or an
\* angle r is the integer nearest to r * FP; lengths are whole metres; degrees
\* are returned in millionths of a degree.  Values stay below 2^31.
FP == 100000000
\* math.pi
PI == 314159265

fabs(a) == IF a < 0 THEN -a ELSE a
sgn(a) == IF a < 0 THEN -1 ELSE 1

\* the value an expression is bound to: value({ f(v) : v \in {e} }) is f(e)
\* with e computed once, the way an assignment to a local computes it
value(S) == CHOOSE r \in S : TRUE

\* float product a * b: the factors are split at 10^4 so that no partial
\* product leaves 32 bits; rounded to the nearest unit
fmul(a, b) ==
    value({ LET p1 == fabs(p) \div 10000
                p0 == fabs(p) % 10000
                q1 == fabs(q) \div 10000
                q0 == fabs(q) % 10000
                m1 == p1 * q0
                m2 == p0 * q1
            IN sgn(p) * sgn(q) *
               (p1 * q1 + m1 \div 10000 + m2 \div 10000
                + (((m1 % 10000) + (m2 % 10000)) * 10000 + p0 * q0 + FP \div 2) \div FP)
            : p \in {a}, q \in {b} })

\* long division: quotient q and remainder r so far, `left' more decimal
\* digits to produce, the last one rounded
RECURSIVE digits(_, _, _, _)
digits(q, r, d, left) ==
    IF left = 0 THEN q + (IF r >= d - r THEN 1 ELSE 0)
    ELSE value({ digits(10 * q0 + (10 * r0) \div d, (10 * r0) % d, d, left - 1)
                 : q0 \in {q}, r0 \in {r} })

\* float quotient a / b, rounded to the nearest unit (|b| below 2^31 / 10)
fdiv(a, b) ==
    value({ sgn(p) * sgn(q) * digits(fabs(p) \div fabs(q), fabs(p) % fabs(q), fabs(q), 8)
            : p \in {a}, q \in {b} })

\* math.sqrt (Newton iteration)
RECURSIVE newton(_, _, _)
newton(v, s, left) ==
    IF left = 0 THEN s
    ELSE value({ IF t = s0 THEN s0 ELSE newton(v, t, left - 1)
                 : s0 \in {s}, t \in {(s + fdiv(v, s)) \div 2} })
fsqrt(v) == value({ IF u = 0 THEN 0 ELSE newton(u, FP, 40) : u \in {v} })

\* math.sin, math.cos (power series, terms t^n / n!)
RECURSIVE series(_, _, _, _)
series(t2, term, n, left) ==
    value({ IF left = 0 \/ u = 0 THEN 0
            ELSE u + series(t2, -fmul(u \div ((m + 1) * (m + 2)), t2), m + 2, left - 1)
            : u \in {term}, m \in {n} })
fsin(t) == value({ series(t2, u, 1, 16) : u \in {t}, t2 \in {fmul(t, t)} })
fcos(t) == value({ series(t2, FP, 0, 16) : t2 \in {fmul(t, t)} })
\* math.tan
ftan(t) == value({ fdiv(fsin(u), fcos(u)) : u \in {t} })

\* v ** n for n in 2..6
pow(v, n) ==
    value({ CASE n = 2 -> fmul(d, d)
              [] n = 3 -> fmul(fmul(d, d), d)
              [] n = 4 -> fmul(fmul(d, d), fmul(d, d))
              [] n = 5 -> fmul(fmul(fmul(d, d), fmul(d, d)), d)
              [] n = 6 -> fmul(fmul(fmul(d, d), fmul(d, d)), fmul(d, d))
            : d \in {v} })

\* "lat * 180 / math.pi": radians to millionths of a degree; 180 / math.pi is
\* 57.2957795 + 0.0000000051, applied in two parts to keep its digits
degrees(r) == value({ fmul(u, 57295779) + fmul(u, 51) \div 100 : u \in {r} })

\* the k-th assignment of twd97_to_wgs84, lines 69-117, on the locals s (b in
\* tenths of a metre).  The products of the series Q3, Q4, Q6, Q7 are formed
\* term by term.
statement(s, k) ==
    CASE k = 1 -> [a |-> 6378137] @@ s
      [] k = 2 -> [b |-> 63567523] @@ s
      [] k = 3 -> [e |-> fsqrt(FP - pow(fdiv(s.b, 10 * s.a), 2))] @@ s
      [] k = 4 -> [k0 |-> 99990000] @@ s
      [] k = 5 -> [dx |-> 250000] @@ s
      [] k = 6 -> [dy |-> 0] @@ s
      [] k = 7 -> [lon0 |-> 121 * (PI \div 180) + (121 * (PI % 180)) \div 180] @@ s
      [] k = 8 -> [x1 |-> s.x - s.dx] @@ s
      [] k = 9 -> [y1 |-> s.y - s.dy] @@ s
      [] k = 10 -> [M |-> fdiv(s.y1, s.k0)] @@ s
      [] k = 11 -> [mu |-> fdiv(s.M, fmul(s.a, FP - pow(s.e, 2) \div 4
                                               - (3 * pow(s.e, 4)) \div 64
                                               - (5 * pow(s.e, 6)) \div 256))] @@ s
      [] k = 12 -> [e1 |-> value({ fdiv(FP - rt, FP + rt) : rt \in {fsqrt(FP - fmul(s.e, s.e))} })] @@ s
      [] k = 13 -> [J1 |-> (3 * s.e1) \div 2 - (27 * pow(s.e1, 3)) \div 32] @@ s
      [] k = 14 -> [J2 |-> (21 * pow(s.e1, 2)) \div 16 - (55 * pow(s.e1, 4)) \div 32] @@ s
      [] k = 15 -> [J3 |-> (151 * pow(s.e1, 3)) \div 96] @@ s
      [] k = 16 -> [J4 |-> (1097 * pow(s.e1, 4)) \div 512] @@ s
      [] k = 17 -> [fp |-> s.mu + fmul(s.J1, fsin(2 * s.mu)) + fmul(s.J2, fsin(4 * s.mu))
                                + fmul(s.J3, fsin(6 * s.mu)) + fmul(s.J4, fsin(8 * s.mu))] @@ s
      [] k = 18 -> [e2 |-> fdiv(pow(s.e, 2), FP - pow(s.e, 2))] @@ s
      [] k = 19 -> [N1 |-> fdiv(s.a, fsqrt(FP - fmul(pow(s.e, 2), pow(fsin(s.fp), 2))))] @@ s
      [] k = 20 -> [T1 |-> pow(ftan(s.fp), 2)] @@ s
      [] k = 21 -> [C1 |-> fmul(s.e2, pow(fcos(s.fp), 2))] @@ s
      [] k = 22 -> [R1 |-> value({ fdiv(fmul(s.a, FP - pow(s.e, 2)), fmul(w, fsqrt(w)))
                                   : w \in {FP - fmul(pow(s.e, 2), pow(fsin(s.fp), 2))} })] @@ s
      [] k = 23 -> [D |-> fdiv(s.x1, fmul(s.N1, s.k0))] @@ s
      [] k = 24 -> [Q1 |-> fdiv(fmul(s.N1, ftan(s.fp)), s.R1)] @@ s
      [] k = 25 -> [Q2 |-> pow(s.D, 2) \div 2] @@ s
      [] k = 26 -> [Q3 |-> value({ (5 * D4 + 3 * fmul(s.T1, D4) + 10 * fmul(s.C1, D4)
                                    - 4 * fmul(pow(s.C1, 2), D4) - 9 * fmul(s.e2, D4)) \div 24
                                   : D4 \in {pow(s.D, 4)} })] @@ s
      [] k = 27 -> [Q4 |-> value({ (61 * D6 + 90 * fmul(s.T1, D6) + 298 * fmul(s.C1, D6)
                                    + 45 * fmul(pow(s.T1, 2), D6) - 252 * fmul(s.e2, D6)
                                    - 3 * fmul(pow(s.C1, 2), D6)) \div 720
                                   : D6 \in {pow(s.D, 6)} })] @@ s
      [] k = 28 -> [lat |-> s.fp - fmul(s.Q1, s.Q2 - s.Q3 + s.Q4)] @@ s
      [] k = 29 -> [Q5 |-> s.D] @@ s
      [] k = 30 -> [Q6 |-> value({ (D3 + 2 * fmul(s.T1, D3) + fmul(s.C1, D3)) \div 6
                                   : D3 \in {pow(s.D, 3)} })] @@ s
      [] k = 31 -> [Q7 |-> value({ (5 * D5 - 2 * fmul(s.C1, D5) + 28 * fmul(s.T1, D5)
                                    - 3 * fmul(pow(s.C1, 2), D5) + 8 * fmul(s.e2, D5)
                                    + 24 * fmul(pow(s.T1, 2), D5)) \div 120
                                   : D5 \in {pow(s.D, 5)} })] @@ s
      [] k = 32 -> [lng |-> s.lon0 + fdiv(s.Q5 - s.Q6 + s.Q7, fcos(s.fp))] @@ s

\* the assignments from the k-th on, in the order the function executes them
RECURSIVE statements(_, _)
statements(s, k) ==
    IF k > 32 THEN s
    ELSE value({ statements(statement(t, i), i + 1) : t \in {s}, i \in {k} })

\* twd97_to_wgs84 up to "lng = lon0 + ...": << lat, lng >> in radians
inverse_mercator(x, y) ==
    value({ << s.lat, s.lng >> : s \in {statements([x |-> x, y |-> y], 1)} })

\* a conversion that returns the radians
twd97_in_radians(x, y) == inverse_mercator(x, y)

\* twd97_to_wgs84: << lat, lng >> in millionths of a degree
twd97_to_wgs84(x, y) ==
    value({ << degrees(r[1]), degrees(r[2]) >> : r \in {inverse_mercator(x, y)} })

\* "lat < 20 or lat > 26 or lng < 118 or lng > 123": every comparison with NaN
\* is false
outside_box(lat, lng) ==
    \/ lat.kind = "num" /\ (lat.v < Deg(20, 0) \/ lat.v > Deg(26, 0))
    \/ lng.kind = "num" /\ (lng.v < Deg(118, 0) \/ lng.v > Deg(123, 0))

\* ParsedPlace.to_dict, the fields the core reads
ParsedPlace(name, address, city, district, latitude, longitude, source_id) ==
    [name |-> name, address |-> address, city |-> city, district |-> district,
     latitude |-> latitude, longitude |-> longitude, sourceId |-> source_id]

\* "a or b" on strings
or_else(a, b) == IF a # << >> THEN a ELSE b
\* row.get(key, '') for an Optional[str] cell
text_of(x) == IF x = None THEN << >> ELSE x[1]

\* parse_playgrounds_csv: one place per row with parseable coordinates inside
\* the box
RECURSIVE playground_places(_, _)
playground_places(rows, k) ==
    IF k > Len(rows) THEN << >>
    ELSE LET row == rows[k]
             lat == row.latitude
             lng == row.longitude
             p == parse_city_and_district(row.address, None, row.district)
         IN (IF lat.kind = "bad" \/ lng.kind = "bad" THEN << >>
             ELSE IF outside_box(lat, lng) THEN << >>
             ELSE << ParsedPlace(row.location, or_else(p[3], text_of(row.address)),
                                 normalize_city_name(p[1]), normalize_district_name(p[2]),
                                 Some(lat), Some(lng),
                                 << "playground", row.location, lat, lng >>) >>)
            \o playground_places(rows, k + 1)

\* a loader that leaves the loop at the first row it rejects
RECURSIVE playground_places_until_rejected(_, _)
playground_places_until_rejected(rows, k) ==
    IF k > Len(rows) THEN << >>
    ELSE IF playground_places(<< rows[k] >>, 1) = << >> THEN << >>
    ELSE playground_places(<< rows[k] >>, 1) \o playground_places_until_rejected(rows, k + 1)
parse_playgrounds_csv_break(rows) == playground_places_until_rejected(rows, 1)

parse_playgrounds_csv(rows) == playground_places(rows, 1)

\* parse_toilets_data: one place per item of type 親子廁所 with parseable
\* coordinates inside the box
RECURSIVE toilet_places(_, _)
toilet_places(data, k) ==
    IF k > Len(data) THEN << >>
    ELSE LET item == data[k]
             lat == item.latitude
             lng == item.longitude
             address == text_of(item.address)
             p == parse_city_and_district(Some(address), None, None)
         IN (IF item.type # "parent_child" THEN << >>
             ELSE IF lat.kind = "bad" \/ lng.kind = "bad" THEN << >>
             ELSE IF outside_box(lat, lng) THEN << >>
             ELSE << ParsedPlace(item.name, or_else(p[3], address),
                                 normalize_city_name(p[1]), normalize_district_name(p[2]),
                                 Some(lat), Some(lng),
                                 IF truthy(item.number) THEN << "number", item.number[1] >>
                                 ELSE << "toilet", lat, lng >>) >>)
            \o toilet_places(data, k + 1)

parse_toilets_data(data) == toilet_places(data, 1)

\* a cell that is missing, None or ''
Absent == [kind |-> "absent", v |-> 0]
isnan(c) == c.kind = "nan"

\* "lat = float(lat_str) if lat_str else float('nan')" for both cells inside
\* one try: a ValueError on either makes both NaN
float_or_nan_pair(s1, s2) ==
    IF s1.kind = "bad" \/ s2.kind = "bad" THEN << NaN, NaN >>
    ELSE << IF s1.kind = "absent" THEN NaN ELSE s1, IF s2.kind = "absent" THEN NaN ELSE s2 >>

\* a guard that lets zero through
usable_grid_nonnegative(x, y) == ~isnan(x) /\ ~isnan(y) /\ x.v >= 0 /\ y.v >= 0

\* "not math.isnan(x) and not math.isnan(y) and x > 0 and y > 0"
usable_grid(x, y) == ~isnan(x) /\ ~isnan(y) /\ x.v > 0 /\ y.v > 0

\* line 232 of parse_playgrounds.py, degrees in millionths
outside_taiwan(lat, lng) ==
    \/ isnan(lat) \/ isnan(lng)
    \/ lat.v < 20000000 \/ lat.v > 26000000
    \/ lng.v < 118000000 \/ lng.v > 123000000

\* "if district and not district.endswith(('區', '市', '鎮', '鄉'))"
with_district_suffix(d) ==
    IF d # << >> /\ d[Len(d)] \notin {"qu", "shi", "zhen", "xiang"} THEN d \o << "qu" >> ELSE d

\* one pass of the loop of parse_taipei_playgrounds_json: the calls of
\* twd97_to_wgs84 it makes and the places it appends (coordinates in
\* millionths of a degree)
taipei_item(item) ==
    LET name == or_else(text_of(item.name), << "unnamed" >>)
        direct == float_or_nan_pair(item.latitude, item.longitude)
        fallback == isnan(direct[1]) \/ isnan(direct[2])
        grid == float_or_nan_pair(item.x, item.y)
        called == fallback /\ usable_grid(grid[1], grid[2])
    IN value({
         LET lat == IF called THEN Num(converted[1]) ELSE direct[1]
             lng == IF called THEN Num(converted[2]) ELSE direct[2]
             place == ParsedPlace(name, << >>,
                                  normalize_city_name(Some(<< "TAI", "bei", "shi" >>)),
                                  normalize_district_name(Some(with_district_suffix(text_of(item.district)))),
                                  Some(lat), Some(lng),
                                  << "taipei_playground",
                                     IF item.id = None THEN name ELSE item.id[1], lat, lng >>)
         IN [calls |-> IF called THEN << << grid[1], grid[2] >> >> ELSE << >>,
             places |-> IF fallback /\ ~called THEN << >>
                        ELSE IF outside_taiwan(lat, lng) THEN << >>
                        ELSE << place >>]
         : converted \in {IF called THEN twd97_to_wgs84(grid[1].v, grid[2].v) ELSE << >>} })

RECURSIVE taipei_items(_, _)
taipei_items(data, k) ==
    IF k > Len(data) THEN [calls |-> << >>, places |-> << >>]
    ELSE value({ [calls |-> first.calls \o rest.calls, places |-> first.places \o rest.places]
                 : first \in {taipei_item(data[k])}, rest \in {taipei_items(data, k + 1)} })

parse_taipei_playgrounds_json(data) == taipei_items(data, 1)

\* "float(row.get('latitude', 0))"
float_or_zero(c) == IF c.kind = "absent" THEN Num(0) ELSE c

\* parse_new_taipei_parks_csv: one place per row with parseable coordinates
\* inside the box
RECURSIVE new_taipei_places(_, _)
new_taipei_places(rows, k) ==
    IF k > Len(rows) THEN << >>
    ELSE LET row == rows[k]
             lat == float_or_zero(row.latitude)
             lng == float_or_zero(row.longitude)
         IN (IF lat.kind = "bad" \/ lng.kind = "bad" THEN << >>
             ELSE IF outside_box(lat, lng) THEN << >>
             ELSE << ParsedPlace(row.name, text_of(row.address),
                                 normalize_city_name(row.city), normalize_district_name(row.district),
                                 Some(lat), Some(lng),
                                 IF row.sourceId = None THEN << "ntpc_park", row.name, lat, lng >>
                                 ELSE row.sourceId[1]) >>)
            \o new_taipei_places(rows, k + 1)

parse_new_taipei_parks_csv(rows) == new_taipei_places(rows, 1)

\* build_address of parse_nursing_rooms.py: the non-empty parts joined
part(x, suffix) == IF truthy(x) THEN x[1] \o suffix ELSE << >>
build_address(row) ==
    part(row.county, << >>) \o part(row.town, << >>) \o part(row.village, << >>)
    \o part(row.road, << >>) \o part(row.section, << "duan" >>) \o part(row.lane, << >>)
    \o part(row.number, << "hao" >>) \o part(row.floor, << >>)

\* "not row.get('場所名稱') or not row['場所名稱'].strip()"
name_is_blank(row) == ~truthy(row.name) \/ strip(row.name[1]) = << >>

\* parse_nursing_rooms_data: one place per row with a name; index counts
\* every row read
RECURSIVE nursing_room_places(_, _, _)
nursing_room_places(rows, source_type, k) ==
    IF k > Len(rows) THEN << >>
    ELSE LET row == rows[k]
         IN (IF name_is_blank(row) THEN << >>
             ELSE << ParsedPlace(strip(row.name[1]), build_address(row),
                                 normalize_city_name(row.county), normalize_district_name(row.town),
                                 None, None,
                                 << "nursing_room", source_type, k - 1, row.name[1] >>) >>)
            \o nursing_room_places(rows, source_type, k + 1)

parse_nursing_rooms_data(rows, source_type) == nursing_room_places(rows, source_type, 1)

\* build_address of convert_nursing_rooms.py
convert_build_address(row) ==
    part(row.county, << >>) \o part(row.town, << >>) \o part(row.village, << >>)
    \o part(row.road, << >>) \o part(row.section, << "duan" >>) \o part(row.lane, << >>)
    \o part(row.number, << "hao" >>) \o part(row.floor, << >>)

\* row.get(key, "").strip() if row.get(key) else ""
stripped_or_empty(x) == IF truthy(x) THEN strip(x[1]) ELSE << >>

\* convert_csv_to_json: data_list; the items carry no sourceId
RECURSIVE convert_items(_, _)
convert_items(rows, k) ==
    IF k > Len(rows) THEN << >>
    ELSE LET row == rows[k]
         IN (IF name_is_blank(row) THEN << >>
             ELSE << ParsedPlace(strip(row.name[1]), convert_build_address(row),
                                 Some(stripped_or_empty(row.county)),
                                 Some(stripped_or_empty(row.town)),
                                 None, None, None) >>)
            \o convert_items(rows, k + 1)

convert_csv_to_json(rows) == convert_items(rows, 1)

\* source files: up to MaxRows rows drawn from sample rows
CoordinateCells ==
    { << Num(Deg(25, 0)), Num(Deg(121, 5)) >>, << Num(0), Num(0) >>,
      << Unparseable, Num(Deg(121, 5)) >>, << NaN, Num(Deg(121, 5)) >> }

PlaygroundRows ==
    { [location |-> n, address |-> a, district |-> d, latitude |-> c[1], longitude |-> c[2]] :
        n \in {<< "A" >>, << "B" >>},
        a \in {Some(<< "tai", "dong", "xian", "tai", "dong", "shi", "lu" >>), Some(<< >>)},
        d \in {None, Some(<< "bei", "tou", "qu" >>)},
        c \in CoordinateCells }

ToiletItems ==
    { [type |-> t, name |-> << "A" >>, address |-> a, latitude |-> c[1], longitude |-> c[2],
       number |-> n] :
        t \in {"parent_child", "other"},
        a \in {Some(<< "TAI", "bei", "shi", "bei", "tou", "qu", "lu" >>),
               Some(<< "tao", "yuan", "shi", "ping2", "zhen", "qu", "lu" >>)},
        c \in CoordinateCells,
        n \in {None, Some(<< "n1" >>)} }

NursingRoomRows ==
    { [name |-> n, county |-> c, town |-> t, village |-> None, road |-> Some(<< "lu" >>),
       section |-> s, lane |-> None, number |-> Some(<< "1" >>), floor |-> None] :
        n \in {Some(<< "A" >>), Some(<< "B" >>), Some(<< " " >>)},
        c \in {Some(<< "tai", "bei", "shi" >>), Some(<< "TAI", "bei", "shi" >>)},
        t \in {Some(<< "bei", "tou", "qu" >>), Some(<< "tai", "xi", "xiang" >>), None},
        s \in {None, Some(<< "2" >>)} }

SourceTypes == {"by_law", "voluntary"}

CallParsePlaygrounds ==
    /\ fn = "none"
    /\ \E rows \in {<< >>} \cup SeqsUpTo(PlaygroundRows, MaxRows) :
        Call("parse_playgrounds_csv", rows, parse_playgrounds_csv(rows))

CallParseToilets ==
    /\ fn = "none"
    /\ \E data \in {<< >>} \cup SeqsUpTo(ToiletItems, MaxRows) :
        Call("parse_toilets_data", data, parse_toilets_data(data))

CallParseNursingRooms ==
    /\ fn = "none"
    /\ \E rows \in {<< >>} \cup SeqsUpTo(NursingRoomRows, MaxRows), st \in SourceTypes :
        Call("parse_nursing_rooms_data", [rows |-> rows, source_type |-> st],
             parse_nursing_rooms_data(rows, st))

CallConvertNursingRooms ==
    /\ fn = "none"
    /\ \E rows \in {<< >>} \cup SeqsUpTo(NursingRoomRows, MaxRows) :
        Call("convert_csv_to_json", rows, convert_csv_to_json(rows))

\* Taipei items: a latitude / longitude pair (millionths of a degree) and a
\* TWD97 pair (metres), each present, partial, unparseable or out of range
TaipeiCoordinates ==
    { [lat |-> Num(25037000), lng |-> Num(121515000), x |-> Absent, y |-> Absent],
      [lat |-> Absent, lng |-> Absent, x |-> Num(302000), y |-> Num(2770000)],
      [lat |-> Num(25037000), lng |-> Absent, x |-> Absent, y |-> Absent],
      [lat |-> Unparseable, lng |-> Num(121515000), x |-> Num(302000), y |-> Num(2770000)],
      [lat |-> Num(27000000), lng |-> Num(121515000), x |-> Num(302000), y |-> Num(2770000)],
      [lat |-> NaN, lng |-> Num(121515000), x |-> Num(0), y |-> Num(2770000)],
      [lat |-> Absent, lng |-> Absent, x |-> Num(-302000), y |-> Num(2770000)],
      [lat |-> Absent, lng |-> Absent, x |-> Unparseable, y |-> Num(2770000)],
      [lat |-> Absent, lng |-> Absent, x |-> Num(302000), y |-> NaN],
      [lat |-> Absent, lng |-> Absent, x |-> Num(400000), y |-> Num(2900000)] }

TaipeiItems ==
    { [name |-> Some(<< "A" >>), district |-> Some(<< "bei", "tou" >>), id |-> None,
       latitude |-> c.lat, longitude |-> c.lng, x |-> c.x, y |-> c.y] : c \in TaipeiCoordinates }
    \cup { [name |-> None, district |-> Some(<< "bei", "tou", "qu" >>), id |-> Some(<< "7" >>),
            latitude |-> Absent, longitude |-> Absent, x |-> Num(302000), y |-> Num(2770000)] }

NewTaipeiRows ==
    { [name |-> << "A" >>, address |-> Some(<< "lu" >>), city |-> Some(<< "xin", "bei", "shi" >>),
       district |-> Some(<< "ban", "qiao", "qu" >>), latitude |-> c[1], longitude |-> c[2],
       sourceId |-> i] :
        c \in CoordinateCells \cup { << Absent, Num(Deg(121, 5)) >>, << Num(Deg(26, 1)), Num(Deg(121, 5)) >> },
        i \in {None, Some(<< "id1" >>)} }

CallParseTaipeiPlaygrounds ==
    /\ fn = "none"
    /\ \E data \in {<< >>} \cup SeqsUpTo(TaipeiItems, MaxRows) :
        Call("parse_taipei_playgrounds_json", data, parse_taipei_playgrounds_json(data))

CallParseNewTaipeiParks ==
    /\ fn = "none"
    /\ \E rows \in {<< >>} \cup SeqsUpTo(NewTaipeiRows, MaxRows) :
        Call("parse_new_taipei_parks_csv", rows, parse_new_taipei_parks_csv(rows))

\* grid points: the origin of the projection, points in Taipei, and points
\* far from it
GridPoints ==
    { << 250000, 0 >>, << 302000, 2770000 >>, << 1, 1 >>, << 300000, 2500000 >>,
      << 400000, 2900000 >>, << 250000, 2212000 >> }

CallTwd97 ==
    /\ fn = "none"
    /\ \E g \in GridPoints :
        Call("twd97_to_wgs84", g, twd97_to_wgs84(g[1], g[2]))

LoaderNext ==
    \/ CallParse
    \/ CallNormalizeCity
    \/ CallNormalizeDistrict
    \/ CallGeocodeAddress
    \/ CallParsePlaygrounds
    \/ CallParseToilets
    \/ CallParseNursingRooms
    \/ CallConvertNursingRooms
    \/ CallTwd97
    \/ CallParseTaipeiPlaygrounds
    \/ CallParseNewTaipeiParks

LoaderSpec == LoaderInit /\ [][LoaderNext]_vars

\* ==================================================================== claims
Indices(its) == 1..Len(its)
\* the run function was entered (the script did not exit for want of a key)
Entered == runState \notin {"Idle", "Aborted"}
CheckpointWritten == lastWrite # "none"
LoopExhausted == runState \in {"Completed", "Crashed"} /\ jobs # << >>

\* C1: in a geocode run no file written by the run (periodic, on interruption
\* or final) holds a record with exactly one of latitude / longitude non-null.
\* Stated as the claim states it; the pool threads assign longitude and then
\* latitude to the dict the coordinator serializes.
NoPartialPairPersisted ==
    (mode = "geocode" /\ CheckpointWritten) =>
        \A i \in Indices(disk) : (disk[i].latitude = None) <=> (disk[i].longitude = None)

\* C2: once the interruption is observed no job that had not started is
\* executed, and in the file written on interruption every record whose job
\* was unfinished at that moment still misses its target field.
InterruptAbandonsUnfinished ==
    /\ (interrupted => atInterrupt.unstarted \subseteq Range(queue))
    /\ runState = "Interrupted" =>
          \A j \in atInterrupt.unfinished : needs_job(mode, disk[j])

\* C3 (as claimed): after a completed run with a client stub that always
\* succeeds, the next run dispatches zero jobs, for every initial record set.
SecondRunDispatchesNothing ==
    (client = "stub_ok" /\ run > 1 /\ prevState = "Completed" /\ Entered) =>
        jobs = << >>

\* the records a geocode run selects and never sends to the client
RECURSIVE BlankFrom(_, _)
BlankFrom(its, k) ==
    IF k > Len(its) THEN << >>
    ELSE (IF its[k].address = "" /\ (its[k].latitude = None \/ its[k].longitude = None)
          THEN << k >> ELSE << >>) \o BlankFrom(its, k + 1)

\* C3 (amended): after a completed run with a client stub that always
\* succeeds, the next run dispatches exactly the records that lack a
\* coordinate and have a blank address in the geocode direction (the client
\* is never called for them), and zero jobs in the reverse direction.
SecondRunDispatchesOnlyBlank ==
    (client = "stub_ok" /\ run > 1 /\ prevState = "Completed" /\ Entered) =>
        jobs = IF mode = "geocode" THEN BlankFrom(loaded, 1) ELSE << >>

\* C3 witness: a second run that found nothing to do after a first run that
\* dispatched jobs to the always-succeeding stub.
SecondRunIdleAfterWork ==
    /\ client = "stub_ok" /\ run = 2 /\ prevState = "Completed"
    /\ prevJobs # << >> /\ runState = "Completed" /\ jobs = << >>

\* C4: no file written by an enrichment run holds a latitude outside [20,26]
\* or a longitude outside [118,123], whatever pair the service returns.
PersistedInsideBox ==
    CheckpointWritten =>
        \A i \in Indices(disk) :
            /\ disk[i].latitude # None => (disk[i].latitude[1] >= Deg(20, 0) /\ disk[i].latitude[1] <= Deg(26, 0))
            /\ disk[i].longitude # None => (disk[i].longitude[1] >= Deg(118, 0) /\ disk[i].longitude[1] <= Deg(123, 0))

\* jobs whose process_item has returned with a change of the record that the
\* durable file does not hold yet
FinishedUnsaved == {j \in Range(jobs) : future[j] = "finished" /\ items[j] # disk[j]}
\* the same, among the jobs the coordinator has collected
CollectedUnsaved == {j \in collected : items[j] # disk[j]}

\* C5 (as claimed): while Running, the number of completed jobs whose outcome
\* is not yet in the durable file is at most save_interval.
CompletedUnsavedBounded ==
    runState = "Running" => Cardinality(FinishedUnsaved) <= save_interval

\* C5 (amended): the file is written in the iteration of the collecting loop
\* in which processed_count - last_save_count reaches save_interval, and only
\* then, with the counter reset; so the jobs the coordinator has collected and
\* not yet saved are fewer than save_interval (jobs the pool has finished but
\* the loop has not collected are not bounded by it).
CheckpointEverySaveInterval ==
    /\ [](runState = "Running" =>
            /\ processed_count - last_save_count < save_interval
            /\ Cardinality(CollectedUnsaved) < save_interval)
    /\ [][(runState = "Running" /\ processed_count' = processed_count + 1) =>
            /\ (last_save_count' # last_save_count) <=>
                   (processed_count' - last_save_count = save_interval)
            /\ IF last_save_count' # last_save_count
               THEN last_save_count' = processed_count' /\ disk' = items' /\ lastWrite' = "periodic"
               ELSE disk' = disk]_vars

\* C5 witness: a periodic save has reset the counter after two collected jobs.
PeriodicSaveAfterTwo ==
    /\ runState = "Running" /\ save_interval = 2 /\ lastWrite = "periodic"
    /\ processed_count = 2 /\ last_save_count = 2

\* C6: during a run a record of the store changes only in the coordinator's
\* merge step (the iteration that counts the job); no pool thread writes it.
OnlyCoordinatorMutatesStore ==
    [][(runState = "Running" /\ runState' = "Running" /\ items' # items) =>
           processed_count' = processed_count + 1]_vars

\* C7: when every job completes without interruption the run ends Completed
\* after the final save, the file equals the store and holds every successful
\* job's result.
CompletedAfterFinalCheckpoint ==
    (runState \in Terminal /\ ~interrupted /\ jobs # << >>) =>
        /\ runState = "Completed"
        /\ lastWrite = "final"
        /\ disk = items
        /\ \A j \in Range(jobs) : result[j] # None => ~needs_job(mode, disk[j])

\* C8: a failed client call yields no result; the job counts as failed, its
\* record stays as loaded, and the other jobs of the batch are still
\* processed (the loop ends only when every job is collected).
FailedCallFailsSoft ==
    /\ \A j \in Range(jobs) :
          (outcome[j] = "failed" /\ future[j] = "finished") =>
              /\ result[j] = None
              /\ items[j] = loaded[j]
    /\ runState \in {"Running", "Completed", "Crashed"} =>
          /\ processed_count = Cardinality(collected)
          /\ processed_count - success_count =
                 Cardinality({j \in collected : outcome[j] \in {"failed", "no_request"}})
    /\ LoopExhausted => collected = Range(jobs)

\* C8 witness: a batch ended with one failed call and one answered call.
BatchEndedWithOneFailure ==
    /\ runState = "Completed" /\ Len(jobs) = 2
    /\ outcome[jobs[1]] = "failed" /\ outcome[jobs[2]] = "answered"
    /\ success_count = 1 /\ processed_count = 2

TheStubPair == << Deg(121, 5), Deg(25, 0) >>
SingleRecordRun(m, c, item) ==
    /\ mode = m /\ client = c /\ run = 1 /\ Len(loaded) = 1 /\ loaded[1] = item

\* C9 (as claimed): one record with empty address and null coordinates, the
\* geocode service stubbed to return (121.5, 25.0): the run ends with
\* latitude 25.0, longitude 121.5 and a success counter of 1.
StubFillsEmptyAddressRecord ==
    (SingleRecordRun("geocode", "stub_ok", Item("", None, None)) /\ LoopExhausted) =>
        /\ items[1].latitude = Some(Deg(25, 0))
        /\ items[1].longitude = Some(Deg(121, 5))
        /\ success_count = 1

\* C9 (amended): with a non-blank address the record ends the collecting loop
\* with latitude 25.0, longitude 121.5 and a success counter of 1; with the
\* empty address of the scenario the service is not called, both coordinates
\* stay null, the success counter is 0 and one job is counted as failed.
StubFillsAddressedRecord ==
    /\ (SingleRecordRun("geocode", "stub_ok", Item("addr", None, None)) /\ LoopExhausted) =>
          /\ items[1].latitude = Some(TheStubPair[2])
          /\ items[1].longitude = Some(TheStubPair[1])
          /\ success_count = 1
    /\ (SingleRecordRun("geocode", "stub_ok", Item("", None, None)) /\ LoopExhausted) =>
          /\ items[1].latitude = None /\ items[1].longitude = None
          /\ outcome[1] = "no_request"
          /\ success_count = 0 /\ processed_count - success_count = 1

\* C9 witness: the addressed single record, filled by the stub and saved.
AddressedRecordFilled ==
    /\ SingleRecordRun("geocode", "stub_ok", Item("addr", None, None))
    /\ runState = "Completed" /\ success_count = 1
    /\ disk[1] = Item("addr", Some(Deg(25, 0)), Some(Deg(121, 5)))

PlaygroundWithoutAddress == Item("", Some(Deg(25, 0)), Some(Deg(121, 5)))

\* C10: one record missing only its address, the reverse-geocode client
\* stubbed to return no result: the run ends with the address still unset and
\* a failure count of 1, and the next job selection selects the record again.
StubNoneLeavesAddressMissing ==
    (mode = "reverse" /\ client = "stub_none" /\ Len(loaded) = 1
        /\ loaded[1] = PlaygroundWithoutAddress) =>
        /\ runState = "Completed" =>
              /\ items[1].address = "" /\ disk[1].address = ""
              /\ processed_count - success_count = 1
              /\ items_to_process(mode, disk) = << 1 >>
        /\ (run > 1 /\ prevState = "Completed" /\ Entered) => jobs = << 1 >>

\* C10 witness: the second run has selected the record again.
RecordSelectedAgain ==
    /\ mode = "reverse" /\ client = "stub_none" /\ Len(loaded) = 1
    /\ loaded[1] = PlaygroundWithoutAddress
    /\ run = 2 /\ prevState = "Completed" /\ prevJobs = << 1 >>
    /\ runState = "Running" /\ jobs = << 1 >>

\* the target field of the direction is missing in a record
TargetMissing(m, item) ==
    IF m = "geocode" THEN item.latitude = None \/ item.longitude = None
    ELSE item.address = ""
\* the record has both coordinates
HasCoordinates(item) == item.latitude # None /\ item.longitude # None
\* the job's process_item reached the client's request
SentToClient(j) == outcome[j] \in {"failed", "answered"}
\* a run that follows an earlier run has built its job list
FollowingRun == run > 1 /\ Entered

\* C11 (as claimed): in a run that follows an earlier run a job is dispatched
\* for a record if and only if its target field is missing in the persisted
\* snapshot, and no record whose result was persisted is sent to the client.
ResumeSelectsExactlyMissing ==
    FollowingRun =>
        /\ \A i \in Indices(loaded) : (i \in Range(jobs)) <=> TargetMissing(mode, loaded[i])
        /\ \A i \in Indices(loaded) : SentToClient(i) => TargetMissing(mode, loaded[i])

\* C11 (amended): in a run that follows an earlier run (completed, interrupted
\* or ended by an error) a job is dispatched for a record if and only if, in
\* the persisted snapshot, its target field is missing and, in the reverse
\* direction, both coordinates are present; each such record has one job, in
\* file order, and a record whose target field is filled in the snapshot is
\* not sent to the client again.
ResumeSelectsMissingWithInputs ==
    FollowingRun =>
        /\ \A i \in Indices(loaded) :
              (i \in Range(jobs)) <=>
                  (TargetMissing(mode, loaded[i]) /\ (mode = "reverse" => HasCoordinates(loaded[i])))
        /\ \A a, b \in 1..Len(jobs) : a < b => jobs[a] < jobs[b]
        /\ \A i \in Indices(loaded) : SentToClient(i) => TargetMissing(mode, loaded[i])

\* C11 witness: after an interrupted run that persisted the result of one of
\* its two jobs, the next run dispatches only the other record and sends it
\* to the client.
ResumeSkipsPersistedResult ==
    /\ run = 2 /\ prevState = "Interrupted" /\ Len(prevJobs) = 2
    /\ Len(jobs) = 1 /\ SentToClient(jobs[1])
    /\ \E i \in Range(prevJobs) : i \notin Range(jobs) /\ ~TargetMissing(mode, loaded[i])

\* C12: when no record misses the target field at the start, the run goes
\* directly to Completed with zero jobs; it calls no client and writes neither
\* a record of the store nor the file.
NothingMissingCompletesUntouched ==
    (Entered /\ \A i \in Indices(loaded) : ~TargetMissing(mode, loaded[i])) =>
        /\ runState = "Completed"
        /\ jobs = << >> /\ queue = << >>
        /\ \A i \in Indices(loaded) : outcome[i] = "none" /\ future[i] = "none"
        /\ \A w \in Workers : wpc[w] = "idle"
        /\ items = loaded /\ disk = loaded /\ lastWrite = "none"
        /\ processed_count = 0

\* C12 witness: a first run over two filled records has ended without work.
FilledStoreCompleted ==
    /\ run = 1 /\ runState = "Completed" /\ Len(loaded) = 2 /\ jobs = << >>
    /\ \A i \in Indices(loaded) : ~TargetMissing(mode, loaded[i])

\* C13: in one run no two jobs carry the same record index, every selected
\* record has its job, and no two pool threads work on the same record at the
\* same time.
OneJobPerRecord ==
    /\ \A a, b \in 1..Len(jobs) : a # b => jobs[a] # jobs[b]
    /\ \A a, b \in 1..Len(queue) : a # b => queue[a] # queue[b]
    /\ Entered => \A i \in Indices(loaded) :
                      needs_job(mode, loaded[i]) => \E a \in 1..Len(jobs) : jobs[a] = i
    /\ \A v, w \in Workers :
          (v # w /\ wpc[v] # "idle" /\ wpc[w] # "idle") => wjob[v] # wjob[w]
    /\ \A w \in Workers : wpc[w] # "idle" => \A a \in 1..Len(queue) : queue[a] # wjob[w]

\* C13 witness: two pool threads are about to write two different records.
TwoThreadsWriteDistinctRecords ==
    /\ wpc[1] \in {"write_lon", "write_lat", "write_addr"}
    /\ wpc[2] \in {"write_lon", "write_lat", "write_addr"}
    /\ wjob[1] # wjob[2]

\* C14: for an address formed as known city + known district + remainder,
\* parse_city_and_district returns that city, that district and the remainder
\* unchanged (also for district names with a suffix character inside, and for
\* remainders with leading or trailing whitespace).
ParseReturnsKnownParts ==
    fn = "parse_city_and_district" =>
        \A c \in Cities, d \in KnownDistricts, r \in Remainders :
            arg.address = Some(c \o d \o r) => ret = << Some(c), Some(d), r >>

\* C15: normalize_city_name and normalize_district_name are idempotent on
\* every city / district value, the empty and the absent one included.
NormalizeIdempotent ==
    /\ fn = "normalize_city_name" => normalize_city_name(ret) = ret
    /\ fn = "normalize_district_name" => normalize_district_name(ret) = ret

LoaderNames ==
    {"parse_playgrounds_csv", "parse_toilets_data", "parse_nursing_rooms_data", "convert_csv_to_json"}

\* C16: in every record a loader produces, city and district, when present,
\* do not contain the variant character 台.
LoadersEmitCanonicalSpelling ==
    fn \in LoaderNames =>
        \A k \in 1..Len(ret) :
            /\ ret[k].city # None => "tai" \notin Range(ret[k].city[1])
            /\ ret[k].district # None => "tai" \notin Range(ret[k].district[1])

\* C17: for a non-empty candidate list geocode_address uses the candidate of
\* highest score, the first one in response order among equals: it returns
\* that candidate's (x, y), or nothing when that candidate has no location.
GeocodeUsesFirstBestCandidate ==
    (fn = "geocode_address" /\ arg.address # "" /\ arg.resp.ok /\ arg.resp.candidates # << >>) =>
        LET c == arg.resp.candidates
            k == CHOOSE k \in 1..Len(c) :
                    /\ \A i \in 1..Len(c) : c[i].score <= c[k].score
                    /\ \A i \in 1..(k - 1) : c[i].score < c[k].score
        IN ret = IF c[k].x # None /\ c[k].y # None THEN << c[k].x[1], c[k].y[1] >> ELSE None

\* C17 witness: two candidates of equal score and different locations; the
\* location of the first one was returned.
GeocodeTieTakesFirst ==
    /\ fn = "geocode_address"
    /\ arg.resp.ok /\ Len(arg.resp.candidates) = 2
    /\ LET c == arg.resp.candidates
       IN /\ c[1].score = c[2].score
          /\ c[1].x # None /\ c[2].x # None /\ c[1].x # c[2].x
          /\ ret = << c[1].x[1], c[1].y[1] >>

\* C18: in a reverse run for which no usable key is available (no key line
\* in .env and no environment variable, or an empty key value) the script
\* exits before any job starts: no request is sent to the service, no record
\* changes and the file is not written.
NoUsableCredentialAborts ==
    (mode = "reverse" /\ api_key \in {None, Some("")} /\ runState # "Idle") =>
        /\ runState = "Aborted"
        /\ jobs = << >>
        /\ \A i \in Indices(loaded) : ~SentToClient(i)
        /\ items = loaded /\ disk = loaded /\ lastWrite = "none"

\* C19: within the records one loader call produces no two records have the
\* same sourceId, also when rows repeat a name, a number or a coordinate pair.
LoaderSourceIdsUnique ==
    fn \in {"parse_toilets_data", "parse_playgrounds_csv", "parse_nursing_rooms_data"} =>
        \A a, b \in 1..Len(ret) : a # b => ret[a].sourceId # ret[b].sourceId

\* C20: in the geocode run and in the reverse run alike, a pool thread sends
\* a request to the service only after a pause has followed its previous
\* request.
PauseBetweenRequestsOfAWorker ==
    [][\A w \in Workers : (wpc[w] # "request" /\ wpc'[w] = "request") => w \notin unpaced]_vars

\* C22: twd97_to_wgs84(250000, 0), the origin of the TWD97 zone, returns
\* latitude 0 and longitude 121 within a millionth of a degree.
Twd97OriginIsEquatorAt121 ==
    (fn = "twd97_to_wgs84" /\ arg = << 250000, 0 >>) =>
        /\ fabs(ret[1]) <= 1
        /\ fabs(ret[2] - 121000000) <= 1

\* C22 witness: the conversion was applied to the origin of the zone
Twd97OriginConverted ==
    fn = "twd97_to_wgs84" /\ arg = << 250000, 0 >> /\ ret[1] = 0

\* a row the loaders reject: a coordinate text float() refuses, or a parsed
\* pair outside the box (tenths of a degree)
RejectedRow(row) ==
    \/ row.latitude.kind = "bad" \/ row.longitude.kind = "bad"
    \/ outside_box(row.latitude, row.longitude)

\* a Taipei item without a usable pair: the latitude / longitude pair is
\* numeric and outside the box (millionths of a degree); or one of its texts
\* is absent, NaN or refused and the grid texts are absent, NaN, refused or
\* not positive, or the converted grid pair is outside the box
RejectedItem(item) ==
    LET numeric(c) == c.kind = "num"
        OutOfBox(lat, lng) ==
            lat < 20000000 \/ lat > 26000000 \/ lng < 118000000 \/ lng > 123000000
    IN IF numeric(item.latitude) /\ numeric(item.longitude)
       THEN OutOfBox(item.latitude.v, item.longitude.v)
       ELSE IF ~(numeric(item.x) /\ numeric(item.y) /\ item.x.v > 0 /\ item.y.v > 0)
       THEN TRUE
       ELSE LET c == twd97_to_wgs84(item.x.v, item.y.v) IN OutOfBox(c[1], c[2])

\* the rows of a source file a loader considers at all
Considered(row) == fn = "parse_toilets_data" => row.type = "parent_child"
Rejected(row) ==
    IF fn = "parse_taipei_playgrounds_json" THEN RejectedItem(row) ELSE RejectedRow(row)
RowLoaders == {"parse_playgrounds_csv", "parse_toilets_data", "parse_taipei_playgrounds_json"}
Emitted == IF fn = "parse_taipei_playgrounds_json" THEN ret.places ELSE ret
ExpectedName(row) ==
    IF fn = "parse_playgrounds_csv" THEN row.location
    ELSE IF fn = "parse_toilets_data" THEN row.name
    ELSE or_else(text_of(row.name), << "unnamed" >>)

LoaderCoordinatesInsideBox ==
    fn \in RowLoaders \cup {"parse_new_taipei_parks_csv"} =>
        \A k \in 1..Len(Emitted) :
            LET lat == Emitted[k].latitude
                lng == Emitted[k].longitude
                unit == IF fn = "parse_taipei_playgrounds_json" THEN 1000000 ELSE 10
            IN lat # None =>
                /\ lng # None
                /\ lat[1].kind = "num" /\ lng[1].kind = "num"
                /\ 20 * unit <= lat[1].v /\ lat[1].v <= 26 * unit
                /\ 118 * unit <= lng[1].v /\ lng[1].v <= 123 * unit

\* the grid texts of an item are both numbers above zero
PositiveGrid(item) ==
    item.x.kind = "num" /\ item.y.kind = "num" /\ item.x.v > 0 /\ item.y.v > 0
\* the item has no numeric latitude / longitude pair, so the loader turns to
\* the grid texts
NeedsGrid(item) == item.latitude.kind # "num" \/ item.longitude.kind # "num"
CallsArePositiveNumbers ==
    \A k \in 1..Len(ret.calls) :
        /\ ret.calls[k][1].kind = "num" /\ ret.calls[k][1].v > 0
        /\ ret.calls[k][2].kind = "num" /\ ret.calls[k][2].v > 0

\* C27 as stated: twd97_to_wgs84 is called only with parsed x > 0 and y > 0,
\* and a record whose grid coordinates are missing, unparseable, zero or
\* negative is skipped without a call: no call and no place comes from it.
GridGuardSkipsEveryRecordWithoutGrid ==
    fn = "parse_taipei_playgrounds_json" =>
        /\ CallsArePositiveNumbers
        /\ Len(ret.calls) <= Len(SelectSeq(arg, PositiveGrid))
        /\ Len(ret.places) <= Len(SelectSeq(arg, PositiveGrid))

\* C27 amended: the calls are exactly the grid pairs, in order, of the items
\* that have no numeric latitude / longitude pair and whose grid texts are
\* numbers above zero; an item without a numeric latitude / longitude pair
\* whose grid coordinates are missing, unparseable, NaN, zero or negative
\* yields no call and no place.
GridGuardBeforeConversion ==
    fn = "parse_taipei_playgrounds_json" =>
        LET Converted(item) == NeedsGrid(item) /\ PositiveGrid(item)
            Dropped(item) == NeedsGrid(item) /\ ~PositiveGrid(item)
            conv == SelectSeq(arg, Converted)
        IN /\ CallsArePositiveNumbers
           /\ ret.calls = [k \in 1..Len(conv) |-> << conv[k].x, conv[k].y >>]
           /\ Len(ret.places) <= Len(arg) - Len(SelectSeq(arg, Dropped))

\* C27 witness: an item with a zero grid coordinate and no latitude was
\* dropped without a call, the next item was converted and kept
ZeroGridDroppedNextConverted ==
    /\ fn = "parse_taipei_playgrounds_json" /\ Len(arg) = 2
    /\ NeedsGrid(arg[1]) /\ arg[1].x = Num(0)
    /\ NeedsGrid(arg[2]) /\ PositiveGrid(arg[2])
    /\ ret.calls = << << arg[2].x, arg[2].y >> >>
    /\ Len(ret.places) = 1

\* C23: an enrichment run only fills missing fields: every checkpoint holds
\* as many records as the loaded snapshot, in the same order, and no field
\* that was present at the start of the run has another value, the present
\* coordinate of a partial pair included.
CheckpointOnlyFillsMissingFields ==
    (Entered /\ CheckpointWritten) =>
        /\ Len(disk) = Len(loaded)
        /\ \A i \in Indices(loaded) :
            /\ loaded[i].address # "" => disk[i].address = loaded[i].address
            /\ loaded[i].latitude # None => disk[i].latitude = loaded[i].latitude
            /\ loaded[i].longitude # None => disk[i].longitude = loaded[i].longitude

\* C29: in the geocode run, once every job is collected without an
\* interruption, the final checkpoint is written whatever the measured
\* elapsed time is, zero included: the report never ends the run before the
\* final save.
FinalCheckpointWhateverElapsedTime ==
    (mode = "geocode" /\ LoopExhausted /\ ~interrupted /\ collected = Range(jobs)) =>
        /\ runState # "Crashed"
        /\ lastWrite = "final"
        /\ disk = items

\* C28: at every point of a run 0 <= success_count <= processed_count <=
\* number of jobs; the failed count, processed_count - success_count, is the
\* number of collected jobs without a result; each job is counted at most
\* once; and at Completed processed_count is the number of jobs.
CountersCountEachJobOnce ==
    Entered =>
        /\ 0 <= success_count /\ success_count <= processed_count
        /\ processed_count <= Len(jobs)
        /\ collected \subseteq Range(jobs)
        /\ processed_count = Cardinality(collected)
        /\ success_count = Cardinality({j \in collected : result[j] # None})
        /\ processed_count - success_count = Cardinality({j \in collected : result[j] = None})
        /\ runState = "Completed" => processed_count = Len(jobs)

\* C28 witness: a run of two jobs completed with one success and one failure
TwoJobsCountedOneSuccess ==
    /\ runState = "Completed" /\ Len(jobs) = 2
    /\ processed_count = 2 /\ success_count = 1
    /\ \E j \in Range(jobs) : result[j] = None

\* C30: a reverse run dispatches a job for a record exactly when its address
\* is empty or absent and both its coordinates are present; a record without
\* address that lacks a coordinate is never sent to the client, never
\* counted, and is left unchanged in the store and in the file.
ReverseDispatchNeedsBothCoordinates ==
    (mode = "reverse" /\ Entered) =>
        /\ \A i \in Indices(loaded) :
              (i \in Range(jobs)) <=> (loaded[i].address = "" /\ HasCoordinates(loaded[i]))
        /\ \A i \in Indices(loaded) :
              (loaded[i].address = "" /\ ~HasCoordinates(loaded[i])) =>
                  /\ outcome[i] = "none" /\ future[i] = "none"
                  /\ i \notin collected
                  /\ items[i] = loaded[i] /\ disk[i] = loaded[i]
        /\ processed_count = Cardinality(collected)

\* C30 witness: a reverse run over a record with both coordinates and a
\* record with one coordinate, both without address, has completed with one
\* job
ReverseRunSkippedPartialPair ==
    /\ mode = "reverse" /\ runState = "Completed" /\ Len(loaded) = 2
    /\ loaded[1].address = "" /\ HasCoordinates(loaded[1])
    /\ loaded[2].address = "" /\ ~HasCoordinates(loaded[2])
    /\ jobs = << 1 >> /\ processed_count = 1
    /\ disk[2] = loaded[2]

\* C25: an interruption never takes effect inside a checkpoint write: when a
\* run has ended, completed or interrupted at any point (also during a
\* periodic or the final save), the file is a complete serialization of the
\* store, never a file cut short.
SnapshotNeverCutShort ==
    runState \in {"Completed", "Interrupted"} =>
        /\ lastWrite # "torn"
        /\ CheckpointWritten => disk = items

\* C24: the only transitions of a run are Idle -> Running -> Completed or
\* Interrupted: a run that has dispatched work is running, or has ended
\* Completed or Interrupted, and in no other state (every client call of the
\* model returns: WorkerResponse is always enabled for a worker that called).
RunEndsCompletedOrInterrupted ==
    (Entered /\ jobs # << >>) => runState \in {"Running", "Completed", "Interrupted"}

====
